---------------------------- MODULE Spec2Model ----------------------------
(***************************************************************************)
(* Model of silab_collections: the bias sequence generator, the voltage    *)
(* ramp engine and the IV / CV scan controllers (meas/smu.py, meas/iv.py,  *)
(* meas/cv.py).                                                            *)
(*                                                                         *)
(* Voltages are integers on a grid of 1/Volt volts (Volt grid units make   *)
(* one volt); results of float divisions are rounded down to the grid.     *)
(* Currents are integers on a scale on which the out-of-range marker 1e37  *)
(* of the scans is the value Sentinel.                                     *)
(* An optional Python argument is a sequence: <<>> is None, <<n>> is n.    *)
(* The DataWriter (utils/data_writer.py) is modelled with the files it     *)
(* writes: a file is a sequence of lines, a line a sequence of text fields.*)
(***************************************************************************)
EXTENDS Integers, Sequences, FiniteSets, TLC

VARIABLES
    \* ---- generate_bias_volts, applied to drawn inputs
    g_in,       \* the arguments of the call
    g_out,      \* its result: <<>> before the call, <<result>> after
    \* ---- the instrument: the basil hardware layer of the SMU, a record
    \*   caps      the optional commands the driver defines
    \*   fmt       "none": no formatting support, "off" / "on": formatting disabled / enabled
    \*   on        output state
    \*   setpoint  last voltage commanded
    \*   cmds      every state-changing command sent to the SMU, in order
    smu,
    \* ---- ramp_voltage, applied to a drawn device state
    r_in,       \* the arguments of the call
    r_out,      \* <<>> before the call, <<result>> after
    \* ---- iv_scan / cv_scan
    pc,         \* position of the scan in its code
    args,       \* the arguments of the call: kind ("iv" / "cv"), current_limit, linger,
                \* the bias arguments and the configuration cfg
    bias_volts, \* the bias sequence of the scan
    idx,        \* number of bias steps completed by the sweep loop
    n_linger,   \* number of lingering iterations completed
    rows,       \* the rows written through the DataWriter, in file order
    writer,     \* "new", "open" or "closed": the DataWriter's file
    lcr,        \* the LCR meter's AC voltage setting (cv_scan)
    dut_open,   \* the instrument session is open
    sweep,      \* how the try block was left: "none" while inside, "completed",
                \* "trip", or the name of the exception that left it
    outcome,    \* "running", "returned", or the exception the caller observes
    checks,     \* the current readings taken for the interlock check, in order
    events,     \* what the scan did, in order (phase marks and teardown steps)
    marks,      \* the length of smu.cmds when the try block was entered and when
                \* it was left (None before), and the voltage read at the start
                \* of each ramp (0 where the setup set 0 V without a ramp)
    \* ---- DataWriter, applied to drawn arguments and calls
    w_in,       \* the arguments of the constructor
    dw,         \* the DataWriter object and the position of the code using it
    fs,         \* the files on disk: a function from paths to their lines
    w_out       \* what the calls made so far did: the last write_row call and its
                \* result, the rows accepted, the exception the caller observed

bias_vars == <<g_in, g_out>>
ramp_vars == <<r_in, r_out>>
scan_vars == <<pc, args, bias_volts, idx, n_linger, rows, writer, lcr, dut_open,
               sweep, outcome, checks, events, marks>>
writer_vars == <<w_in, dw, fs, w_out>>

----------------------------------------------------------------------------
\* Bounds of the model.

\* grid units per volt
Volt == 1000
\* largest scalar bias magnitude drawn, in half volts
MaxHalfVolts == 5
\* largest steps argument drawn
MaxSteps == 4
\* longest explicit bias list drawn
MaxLen == 3
\* explicit bias list elements are drawn from 0 .. MaxElem volts
MaxElem == 2

None == <<>>
Some(x) == <<x>>
IsNone(o) == o = <<>>
Val(o) == o[1]

Abs(x) == IF x < 0 THEN -x ELSE x

HalfVolt == Volt \div 2

----------------------------------------------------------------------------
\* a path whose steps are as long as the whole way
linspace_overshoot(start, stop, num) ==
    IF num <= 0 THEN <<>>
    ELSE [i \in 1 .. num |-> start + (i - 1) * (stop - start)]

\* a path of the two end points only
linspace_endpoints(start, stop, num) ==
    IF num <= 0 THEN <<>>
    ELSE IF num = 1 THEN <<start>>
    ELSE <<start, stop>>

\* numpy.linspace(start, stop, num): num < 0 is rejected by the callers'
\* guard below; 0 points give the empty array, 1 point gives start alone,
\* otherwise start + i * (stop - start) / (num - 1) with the last element
\* set to stop.
linspace(start, stop, num) ==
    IF num <= 0 THEN <<>>
    ELSE IF num = 1 THEN <<start>>
    ELSE [i \in 1 .. num |->
            IF i = num THEN stop
            ELSE start + (((i - 1) * (stop - start)) \div (num - 1))]

\* int(x) of a non-negative grid value x: whole volts, truncated
IntVolts(x) == x \div Volt

\* smu.py:92  is_monotonic = lambda a: all(a[i] <= a[i+1] ...) or all(a[i] >= a[i+1] ...)
is_monotonic_strict(a) ==
    \/ \A i \in 1 .. Len(a) - 1 : a[i] < a[i + 1]
    \/ \A i \in 1 .. Len(a) - 1 : a[i] > a[i + 1]

is_monotonic(a) ==
    \/ \A i \in 1 .. Len(a) - 1 : a[i] <= a[i + 1]
    \/ \A i \in 1 .. Len(a) - 1 : a[i] >= a[i + 1]

Ok(v)  == [err |-> "none", volts |-> v]
Err(e) == [err |-> e, volts |-> <<>>]

\* smu.py:64-111.  bias is [scalar |-> BOOLEAN, val |-> grid value, list |-> sequence of
\* grid values]; the elements of an explicit list are numbers here, so the float()
\* conversion of line 97 cannot fail.
generate_bias_volts(bias, steps, polarity, check_monotonic) ==
    IF ~bias.scalar
    THEN LET scaled == [i \in 1 .. Len(bias.list) |-> bias.list[i] * polarity]
         IN  IF check_monotonic /\ ~is_monotonic(scaled)
             THEN Err("ValueError")
             ELSE Ok(scaled)
    ELSE LET bias_polarity == IF polarity >= 0 THEN 1 ELSE -1
             max_bias == bias_polarity * bias.val
         IN  IF IsNone(steps)
             THEN Ok(linspace(0, max_bias, IntVolts(Abs(max_bias) + Volt)))
             ELSE IF Val(steps) < 0
                  THEN Err("ValueError")
                  ELSE Ok(linspace(0, max_bias, Val(steps)))

----------------------------------------------------------------------------
\* The instrument.  The SMU is a basil hardware layer: looking up any command
\* name succeeds, and calling a command the driver does not define raises
\* ValueError (smu.py:14).  set_voltage, get_voltage and get_current are
\* commands every SMU driver defines; the others are optional.

OptionalCaps == {"source_volt", "set_current_limit", "set_voltage_range",
                 "get_on", "on", "off"}

Cmd(c, a) == [cmd |-> c, arg |-> a]

Send(d, c, a) == [d EXCEPT !.cmds = Append(@, Cmd(c, a))]

set_voltage(d, v) == [Send(d, "set_voltage", v) EXCEPT !.setpoint = v]

\* the effect of a command the driver defines
Perform(d, method, arg) ==
    CASE method = "on"          -> [Send(d, "on", 0) EXCEPT !.on = TRUE]
      [] method = "off"         -> [Send(d, "off", 0) EXCEPT !.on = FALSE]
      [] method = "set_voltage" -> set_voltage(d, arg)
      [] OTHER                  -> Send(d, method, arg)

Defines(d, method) == method = "set_voltage" \/ method \in d.caps

\* smu.py:11-17: the ValueError of an undefined command is swallowed
call_method_if_exists(d, method, arg) ==
    IF Defines(d, method) THEN Perform(d, method, arg) ELSE d

\* smu.get_on through call_method_if_exists: None, or the device's answer
get_on(d) ==
    IF Defines(d, "get_on") THEN Some(IF d.on THEN "1" ELSE "0") ELSE None

\* Python's int(s) and bool(s) of a stripped answer
PyInt(s) == IF s = "1" THEN 1 ELSE 0
PyBool(s) == s # ""

\* smu.py:48-62.  A driver with formatting has it enabled first (a command
\* to the device).  The value read is the commanded voltage plus the
\* deviation e of the output at that moment.
get_voltage_reading(d, e) ==
    [smu   |-> IF d.fmt = "off"
               THEN [Send(d, "enable_formatting", 0) EXCEPT !.fmt = "on"]
               ELSE d,
     value |-> d.setpoint + e]

\* program constants of the convergence check, smu.py:205:
\* np.isclose(a, b, atol=1) is |a - b| <= atol + rtol * |b| with numpy's
\* default rtol = 1e-5 = 1 / RtolDen
Atol == 1
RtolDen == 100000

\* On the grid, d <= Atol*Volt + |b| / RtolDen iff d <= Atol*Volt + floor(|b| / RtolDen).
isclose(a, b) == Abs(a - b) <= Atol * Volt + (Abs(b) \div RtolDen)

\* the loop of smu.py:192-200 over the path volts
SetAll(d, volts) ==
    [d EXCEPT !.cmds = @ \o [i \in 1 .. Len(volts) |-> Cmd("set_voltage", volts[i])],
              !.setpoint = IF Len(volts) = 0 THEN @ ELSE volts[Len(volts)]]

RampResult(d, e, walked, entry, readback) ==
    [smu |-> d, err |-> e, walked |-> walked, entry |-> entry, readback |-> readback]

\* the power-on step of smu.py:171-174
RampPowerOn(d) ==
    LET smu_is_on == get_on(d)
    IN  IF ~IsNone(smu_is_on) /\ PyInt(Val(smu_is_on)) = 0
        THEN call_method_if_exists(d, "on", 0)
        ELSE d

\* the early return of smu.py:180
AtTarget_never(current_voltage, target_voltage) == FALSE

AtTarget(current_voltage, target_voltage) == current_voltage = target_voltage

\* smu.py:150-206.  e0 and e1 are the deviations of the output at the two
\* readings (at entry and after the path).  The result carries the device
\* afterwards, the exception raised ("none": normal return), whether the path
\* was walked, and the two readings.
ramp_voltage(d, target_voltage, steps, e0, e1) ==
    LET d1 == RampPowerOn(d)
        r0 == get_voltage_reading(d1, e0)
        current_voltage == r0.value
        num == IF IsNone(steps)
               THEN IntVolts(Abs(target_voltage - current_voltage) + 2 * Volt)
               ELSE Val(steps)
        volts == linspace(current_voltage, target_voltage, num)
        d2 == SetAll(r0.smu, volts)
        r1 == get_voltage_reading(d2, e1)
    IN  IF AtTarget(current_voltage, target_voltage)
        THEN RampResult(r0.smu, "none", FALSE, current_voltage, current_voltage)
        ELSE IF num < 0
        THEN RampResult(r0.smu, "ValueError", FALSE, current_voltage, current_voltage)
        ELSE IF ~isclose(r1.value, target_voltage)
        THEN RampResult(r1.smu, "RuntimeError", TRUE, current_voltage, r1.value)
        ELSE RampResult(r1.smu, "none", TRUE, current_voltage, r1.value)

----------------------------------------------------------------------------
\* Specification of generate_bias_volts on drawn inputs.

ScalarBiases == { [scalar |-> TRUE, val |-> h * HalfVolt, list |-> <<>>] :
                    h \in -MaxHalfVolts .. MaxHalfVolts }

Lists(n) == UNION { [1 .. k -> { e * Volt : e \in 0 .. MaxElem }] : k \in 0 .. n }

ListBiases == { [scalar |-> FALSE, val |-> 0, list |-> l] : l \in Lists(MaxLen) }

StepsArgs == {None} \cup { Some(n) : n \in -1 .. MaxSteps }

Polarities == {-1, 0, 1, 2}

BiasInputs ==
    { [bias |-> b, steps |-> s, polarity |-> p, check_monotonic |-> c] :
        b \in ScalarBiases \cup ListBiases, s \in StepsArgs,
        p \in Polarities, c \in BOOLEAN }

IdleSmu ==
    smu = [caps |-> {}, fmt |-> "none", on |-> FALSE, setpoint |-> 0, cmds |-> <<>>]

IdleRamp == r_in = <<>> /\ r_out = <<>>

IdleScan ==
    /\ pc = "idle" /\ args = <<>> /\ bias_volts = <<>> /\ idx = 0 /\ n_linger = 0
    /\ rows = <<>> /\ writer = "new" /\ lcr = "unset" /\ dut_open = FALSE
    /\ sweep = "none" /\ outcome = "running" /\ checks = <<>> /\ events = <<>>
    /\ marks = [entered |-> None, left |-> None, reads |-> <<>>]

IdleWriter == w_in = <<>> /\ dw = <<>> /\ fs = <<>> /\ w_out = <<>>

InitBias ==
    /\ g_in \in BiasInputs
    /\ g_out = <<>>
    /\ IdleSmu
    /\ IdleRamp
    /\ IdleScan
    /\ IdleWriter

CallGenerate ==
    /\ g_out = <<>>
    /\ g_out' = <<generate_bias_volts(g_in.bias, g_in.steps, g_in.polarity,
                                      g_in.check_monotonic)>>
    /\ UNCHANGED <<g_in, smu, ramp_vars, scan_vars, writer_vars>>

vars == <<bias_vars, smu, ramp_vars, scan_vars, writer_vars>>

NextBias == CallGenerate

SpecBias == InitBias /\ [][NextBias]_vars

----------------------------------------------------------------------------
\* Specification of ramp_voltage on drawn device states and arguments.

\* largest target drawn, in volts
MaxTargetVolts == 100
\* largest commanded voltage of the drawn device, in volts
MaxSetpointVolts == 2

CapSets == { OptionalCaps, OptionalCaps \ {"get_on"}, OptionalCaps \ {"on"},
             OptionalCaps \ {"off"}, {} }

\* deviations of a reading from the commanded voltage: none, half a volt,
\* one volt, and one grid unit more than one volt, either side
ReadErrors == {0, HalfVolt, -HalfVolt, Volt, -Volt, Volt + 1, -(Volt + 1)}

RampDevices ==
    { [caps |-> c, fmt |-> f, on |-> o, setpoint |-> v * Volt, cmds |-> <<>>] :
        c \in CapSets, f \in {"none", "off", "on"}, o \in BOOLEAN,
        v \in 0 .. MaxSetpointVolts }

RampTargets == {0, Volt, -Volt, MaxTargetVolts * Volt}

RampInputs ==
    { [target_voltage |-> t, steps |-> s] :
        t \in RampTargets, s \in {None} \cup { Some(n) : n \in -1 .. MaxSteps } }

IdleBias == g_in = <<>> /\ g_out = <<>>

InitRamp ==
    /\ smu \in RampDevices
    /\ r_in \in RampInputs
    /\ r_out = <<>>
    /\ IdleBias
    /\ IdleScan
    /\ IdleWriter

CallRamp ==
    /\ r_out = <<>>
    /\ \E e0 \in ReadErrors, e1 \in ReadErrors :
         LET r == ramp_voltage(smu, r_in.target_voltage, r_in.steps, e0, e1)
         IN  /\ smu' = r.smu
             /\ r_out' = <<[err |-> r.err, walked |-> r.walked, entry |-> r.entry,
                            readback |-> r.readback, before |-> smu]>>
    /\ UNCHANGED <<r_in, bias_vars, scan_vars, writer_vars>>

NextRamp == CallRamp

SpecRamp == InitRamp /\ [][NextRamp]_vars

----------------------------------------------------------------------------
\* iv_scan (iv.py:34-190) and cv_scan (cv.py:15-177), from the point where the
\* DataWriter has been constructed.

\* the out-of-range marker 1e37 of iv.py:136 / cv.py:120 on the current scale
Sentinel == 1000

\* longest lingering modelled, in iterations
MaxLinger == 1
\* largest scalar bias of a scan, in volts
MaxScanVolts == 1

\* iv.py:136, cv.py:120
Trips_wrong_side(current, current_limit) ==
    current > current_limit /\ current > Sentinel

Trips_at_sentinel(current, current_limit) ==
    current > current_limit /\ current <= Sentinel

Trips_at_limit(current, current_limit) ==
    current >= current_limit /\ current < Sentinel

Trips(current, current_limit) ==
    current > current_limit /\ current < Sentinel

\* readings the SMU can return for a current at the interlock check: the limit
\* itself, just above the limit, the out-of-range marker and a value above it
Currents(current_limit) == {current_limit, current_limit + 1, Sentinel, Sentinel + 1}

\* currents the SMU can return for the measurement that is recorded: within
\* the limit and above it
Measured(current_limit) == {0, current_limit + 1}

\* deviations of a voltage reading during a scan: none, or two volts
ScanReadErrors == {0, 2 * Volt}

MaxAbs(a) == CHOOSE m \in { Abs(a[j]) : j \in 1 .. Len(a) } :
                \A j \in 1 .. Len(a) : Abs(a[j]) <= m

\* a setup that configures the limit after the output was set and enabled
setup_voltage_source_limit_last(d, bias_voltage, current_limit, e0, e1) ==
    LET d1 == call_method_if_exists(call_method_if_exists(d, "set_voltage", 0), "on", 0)
    IN  RampResult(call_method_if_exists(d1, "set_current_limit", current_limit),
                   IF Len(bias_voltage) = 0 THEN "ValueError" ELSE "none", FALSE, 0, 0)

\* smu.py:113-147.  np.max of an empty bias array raises ValueError while the
\* argument of set_voltage_range is evaluated.  bool() of the answer of get_on
\* is true for "0" as for "1".
setup_voltage_source(d, bias_voltage, current_limit, e0, e1) ==
    LET d1 == call_method_if_exists(d, "source_volt", 0)
        d2 == call_method_if_exists(d1, "set_current_limit", current_limit)
        d3 == call_method_if_exists(d2, "set_voltage_range", MaxAbs(bias_voltage))
        smu_is_on == get_on(d3)
    IN  IF Len(bias_voltage) = 0
        THEN RampResult(d2, "ValueError", FALSE, 0, 0)
        ELSE IF ~IsNone(smu_is_on) /\ PyBool(Val(smu_is_on))
        THEN ramp_voltage(d3, 0, None, e0, e1)
        ELSE RampResult(call_method_if_exists(call_method_if_exists(d3, "set_voltage", 0),
                                              "on", 0),
                        "none", FALSE, 0, 0)

\* writer.write_row(timestamp=..., bias=bias, current=current) of iv.py:20 / iv.py:30 /
\* cv.py:131 / cv.py:143: one row per call, appended to the file; current is the
\* reading, or the mean of the n_meas readings
write_row_twice(file, bias, current) ==
    file \o <<[bias |-> bias, current |-> current], [bias |-> bias, current |-> current]>>

write_row(file, bias, current) == Append(file, [bias |-> bias, current |-> current])

Mark(e) == events' = Append(events, e)

\* the normal outcome of a try block that raised nothing
Normal(s) == s \in {"completed", "trip"}

\* the try block is left (normally, by the break of the interlock, or by an
\* exception): DataWriter.__exit__ closes the file if __enter__ had opened it,
\* and control passes to the finally block
LeaveTry(how, d) ==
    /\ sweep' = how
    /\ writer' = IF writer = "open" THEN "closed" ELSE writer
    /\ marks' = [marks EXCEPT !.left = Some(Len(d.cmds))]
    /\ pc' = IF args.kind = "cv" THEN "td_lcr" ELSE "td_ramp"

\* the call ends: it returns, or raises e
Finish(e) ==
    /\ pc' = "done"
    /\ outcome' = e

\* ---- before the try block

\* iv.py:113 / cv.py:92
Setup ==
    /\ pc = "setup"
    /\ \E e0 \in ScanReadErrors, e1 \in ScanReadErrors :
         LET r == setup_voltage_source(smu, bias_volts, args.current_limit, e0, e1)
         IN  /\ smu' = r.smu
             /\ marks' = [marks EXCEPT !.reads = Append(@, r.entry)]
             /\ IF r.err = "none"
                THEN pc' = "ramp0" /\ UNCHANGED outcome
                ELSE Finish(r.err)
    /\ Mark("setup")
    /\ UNCHANGED <<args, bias_volts, idx, n_linger, rows, writer, lcr, dut_open,
                   sweep, checks, bias_vars, ramp_vars, writer_vars>>

\* iv.py:117 / cv.py:95
InitialRamp ==
    /\ pc = "ramp0"
    /\ \E e0 \in ScanReadErrors, e1 \in ScanReadErrors :
         LET r == ramp_voltage(smu, 0, None, e0, e1)
         IN  /\ smu' = r.smu
             /\ marks' = [marks EXCEPT !.reads = Append(@, r.entry)]
             /\ IF r.err = "none"
                THEN pc' = (IF args.kind = "cv" THEN "lcr" ELSE "enter") /\ UNCHANGED outcome
                ELSE Finish(r.err)
    /\ Mark("ramp0")
    /\ UNCHANGED <<args, bias_volts, idx, n_linger, rows, writer, lcr, dut_open,
                   sweep, checks, bias_vars, ramp_vars, writer_vars>>

\* cv.py:98-101
LcrSetup ==
    /\ pc = "lcr"
    /\ lcr' = "ac_voltage"
    /\ pc' = "enter"
    /\ UNCHANGED <<smu, args, bias_volts, idx, n_linger, rows, writer, dut_open,
                   sweep, outcome, checks, events, marks, bias_vars, ramp_vars, writer_vars>>

\* ---- the try block

\* iv.py:121 / cv.py:105: with data_writer as writer
Enter ==
    /\ pc = "enter"
    /\ writer' = "open"
    /\ marks' = [marks EXCEPT !.entered = Some(Len(smu.cmds))]
    /\ pc' = "step"
    /\ Mark("sweep")
    /\ UNCHANGED <<smu, args, bias_volts, idx, n_linger, rows, lcr, dut_open,
                   sweep, outcome, checks, bias_vars, ramp_vars, writer_vars>>

\* iv.py:127-138 / cv.py:111-122: set the next bias, read the current, check the limit
StepSet ==
    /\ pc = "step"
    /\ idx < Len(bias_volts)
    /\ smu' = set_voltage(smu, bias_volts[idx + 1])
    /\ \E current \in Currents(args.current_limit) :
         /\ checks' = Append(checks, current)
         /\ IF Trips(current, args.current_limit)
            THEN LeaveTry("trip", smu')
            ELSE pc' = "measure" /\ UNCHANGED <<sweep, writer, marks>>
    /\ UNCHANGED <<args, bias_volts, idx, n_linger, rows, lcr, dut_open,
                   outcome, events, bias_vars, ramp_vars, writer_vars>>

\* iv.py:141-143 / cv.py:125-145: settle, measure, write the row
StepMeasure ==
    /\ pc = "measure"
    /\ \E current \in Measured(args.current_limit) :
         rows' = write_row(rows, bias_volts[idx + 1], current)
    /\ idx' = idx + 1
    /\ pc' = "step"
    /\ UNCHANGED <<smu, args, bias_volts, n_linger, writer, lcr, dut_open,
                   sweep, outcome, checks, events, marks, bias_vars, ramp_vars, writer_vars>>

\* iv.py:151  if linger: the linger argument is "False", "True" (a bool),
\* "seconds" (a positive number) or "invalid" (a value of another type)
LingerRequested_always(linger) == TRUE

LingerRequested(linger) == linger # "False"

\* the loop variable bias after the loop (iv.py:127, read at iv.py:177): the
\* last value of the bias sequence
LingerBias_first(volts) == volts[1]

LingerBias(volts) == volts[Len(volts)]

\* iv.py:146-163: the else branch of the loop; in cv_scan the loop just ends.
\* The description of the progress bar reads the loop variable bias, which is
\* unbound after a loop over an empty sequence (NameError).
SweepDone ==
    /\ pc = "step"
    /\ idx = Len(bias_volts)
    /\ CASE ~LingerRequested(args.linger) -> LeaveTry("completed", smu)
         [] args.linger = "invalid" -> LeaveTry("ValueError", smu)
         [] Len(bias_volts) = 0     -> LeaveTry("NameError", smu)
         [] OTHER                   -> pc' = "linger" /\ UNCHANGED <<sweep, writer, marks>>
    /\ Mark("swept")
    /\ UNCHANGED <<smu, args, bias_volts, idx, n_linger, rows, lcr, dut_open,
                   outcome, checks, bias_vars, ramp_vars, writer_vars>>

\* iv.py:175-177: one lingering iteration at the last bias
LingerMeasure ==
    /\ pc = "linger"
    /\ n_linger < MaxLinger
    /\ \E current \in Measured(args.current_limit) :
         rows' = write_row(rows, LingerBias(bias_volts), current)
    /\ n_linger' = n_linger + 1
    /\ UNCHANGED <<smu, pc, args, bias_volts, idx, writer, lcr, dut_open,
                   sweep, outcome, checks, events, marks, bias_vars, ramp_vars, writer_vars>>

\* iv.py:156 / iv.py:178: the time is up
LingerEnd ==
    /\ pc = "linger"
    /\ args.linger = "seconds"
    /\ LeaveTry("completed", smu)
    /\ UNCHANGED <<smu, args, bias_volts, idx, n_linger, rows, lcr, dut_open,
                   outcome, checks, events, bias_vars, ramp_vars, writer_vars>>

\* iv.py:179-181: the operator's interrupt ends lingering, the transfer layer is read
LingerInterrupt ==
    /\ pc = "linger"
    /\ Mark("drain")
    /\ LeaveTry("completed", smu)
    /\ UNCHANGED <<smu, args, bias_volts, idx, n_linger, rows, lcr, dut_open,
                   outcome, checks, bias_vars, ramp_vars, writer_vars>>

\* an exception inside the try block: a failure of the device or of the
\* writer, or the operator's interrupt outside the lingering loop
Raise ==
    /\ pc \in {"enter", "step", "measure", "linger"}
    /\ \E e \in {"IOError", "KeyboardInterrupt"} :
         /\ ~(pc = "linger" /\ e = "KeyboardInterrupt")
         /\ LeaveTry(e, smu)
    /\ UNCHANGED <<smu, args, bias_volts, idx, n_linger, rows, lcr, dut_open,
                   outcome, checks, events, bias_vars, ramp_vars, writer_vars>>

\* ---- the finally block

\* cv.py:165
TeardownLcr ==
    /\ pc = "td_lcr"
    /\ lcr' = "MIN"
    /\ pc' = "td_ramp"
    /\ Mark("lcr_min")
    /\ UNCHANGED <<smu, args, bias_volts, idx, n_linger, rows, writer, dut_open,
                   sweep, outcome, checks, marks, bias_vars, ramp_vars, writer_vars>>

\* what follows a failed return-to-zero ramp: iv.py:186 lets the RuntimeError
\* leave the finally block, cv.py:168-172 catches it
AfterFailedRamp(kind) == IF kind = "cv" THEN "td_off" ELSE "raise"

\* iv.py:186 / cv.py:168-172
TeardownRamp ==
    /\ pc = "td_ramp"
    /\ \E e0 \in ScanReadErrors, e1 \in ScanReadErrors :
         LET r == ramp_voltage(smu, 0, Some(Len(bias_volts)), e0, e1)
         IN  /\ smu' = r.smu
             /\ marks' = [marks EXCEPT !.reads = Append(@, r.entry)]
             /\ IF r.err = "none"
                THEN /\ Mark("td_ramp")
                     /\ pc' = "td_off" /\ UNCHANGED outcome
                ELSE /\ events' = events \o <<"td_ramp", "td_ramp_failed">>
                     /\ IF AfterFailedRamp(args.kind) = "raise"
                        THEN Finish(r.err)
                        ELSE pc' = "td_off" /\ UNCHANGED outcome
    /\ UNCHANGED <<args, bias_volts, idx, n_linger, rows, writer, lcr, dut_open,
                   sweep, checks, bias_vars, ramp_vars, writer_vars>>

\* iv.py:188 calls off through call_method_if_exists; cv.py:174-175 asks
\* hasattr(smu, 'off'), which is true of a hardware layer that resolves every
\* name, and calls smu.off(): ValueError when the driver does not define it
TeardownOff ==
    /\ pc = "td_off"
    /\ IF Defines(smu, "off")
       THEN /\ smu' = Perform(smu, "off", 0)
            /\ Mark("td_off")
            /\ pc' = "td_close" /\ UNCHANGED outcome
       ELSE /\ UNCHANGED <<smu, events>>
            /\ IF args.kind = "cv"
               THEN Finish("ValueError")
               ELSE pc' = "td_close" /\ UNCHANGED outcome
    /\ UNCHANGED <<args, bias_volts, idx, n_linger, rows, writer, lcr, dut_open,
                   sweep, checks, marks, bias_vars, ramp_vars, writer_vars>>

\* iv.py:190 / cv.py:177, and the end of the finally block: the call returns,
\* or the exception that left the try block is raised again
TeardownClose ==
    /\ pc = "td_close"
    /\ dut_open' = FALSE
    /\ Mark("td_close")
    /\ Finish(IF Normal(sweep) THEN "returned" ELSE sweep)
    /\ UNCHANGED <<smu, args, bias_volts, idx, n_linger, rows, writer, lcr,
                   sweep, checks, marks, bias_vars, ramp_vars, writer_vars>>

----------------------------------------------------------------------------
\* The DataWriter (utils/data_writer.py).
\*
\* A Python value is a record: t is its type, v its text.  An argument that
\* may be a string or a list of values is [t |-> type, items |-> the values]:
\* a string has itself as its one item, None has none.
\* A path is a sequence of name parts, <<"scan", ".csv">> being scan.csv.
\* A file is a sequence of lines [kind |-> "comment" / "table" / "data",
\* fields |-> texts]; fs maps the path of each file that exists to its lines.

\* data_writer.py:19-21
CSV == 0
TABLES == 1
_FILE_EXTENSION(out_type) == IF out_type = CSV THEN ".csv" ELSE ".h5"

PyStr(s) == [t |-> "str", v |-> s]
PyNum(s) == [t |-> "int", v |-> s]

PyNone == [t |-> "None", items |-> <<>>]
OneStr(s) == [t |-> "str", items |-> <<PyStr(s)>>]
OneNum(s) == [t |-> "int", items |-> <<PyNum(s)>>]
PyList(l) == [t |-> "list", items |-> l]

\* the truth value Python gives an argument: None, "", 0 and [] are false
Truthy(x) ==
    CASE x.t = "None" -> FALSE
      [] x.t = "str"  -> x.items[1].v # ""
      [] x.t = "int"  -> x.items[1].v # "0"
      [] OTHER        -> Len(x.items) > 0

\* str.lower() of a name part
lower(part) == CASE part = ".CSV" -> ".csv" [] part = ".H5" -> ".h5" [] OTHER -> part

\* sep.join(texts)
RECURSIVE join(_, _)
join(sep, texts) ==
    IF Len(texts) = 0 THEN ""
    ELSE IF Len(texts) = 1 THEN texts[1]
    ELSE texts[1] \o sep \o join(sep, Tail(texts))

\* data_writer.py:105-111
_check_extension(out_file, out_type) ==
    IF lower(out_file[Len(out_file)]) = _FILE_EXTENSION(out_type)
    THEN out_file
    ELSE Append(out_file, _FILE_EXTENSION(out_type))

\* os.path.isfile
isfile(fsys, path) == path \in DOMAIN fsys

\* data_writer.py:63-81: the error raised, "none" if none
_check_sanity(fsys, out_file, overwrite, identifier) ==
    IF isfile(fsys, out_file) /\ ~overwrite THEN "IOError"
    ELSE IF ~Truthy(identifier) \/ identifier.t # "str" THEN "ValueError"
    ELSE "none"

\* data_writer.py:83-103: columns is [t |-> "list" / "tuple" / "dtype" / "str",
\* names |-> the column names]
_check_columns(out_type, columns) ==
    IF out_type = TABLES
    THEN IF columns.t # "dtype" THEN "TypeError" ELSE "none"
    ELSE IF columns.t \notin {"list", "tuple"} THEN "TypeError" ELSE "none"

\* data_writer.py:113-132: comments that are false in Python are not looked at
_prepare_comments_any(comments) ==
    IF comments.t = "None" THEN [err |-> "none", comments |-> comments]
    ELSE IF comments.t = "str"
    THEN [err |-> "none", comments |-> PyList(comments.items)]
    ELSE IF comments.t \in {"list", "tuple"}
    THEN IF \E j \in 1 .. Len(comments.items) : comments.items[j].t # "str"
         THEN [err |-> "ValueError", comments |-> comments]
         ELSE [err |-> "none", comments |-> comments]
    ELSE [err |-> "ValueError", comments |-> comments]

_prepare_comments(comments) ==
    IF Truthy(comments)
    THEN _prepare_comments_any(comments)
    ELSE [err |-> "none", comments |-> comments]

\* data_writer.py:23-61: the object constructed, and the error raised ("none" if
\* none); no file is touched
DataWriter_init(fsys, a) ==
    LET out_file == _check_extension(a.outfile, a.outtype)
        sane     == _check_sanity(fsys, out_file, a.overwrite, a.identifier)
        cols     == _check_columns(a.outtype, a.columns)
        prepared == _prepare_comments(a.comments)
        obj == [out_file |-> out_file, out_type |-> a.outtype,
                comments |-> prepared.comments, columns |-> a.columns,
                identifier |-> a.identifier, overwrite |-> a.overwrite,
                col_names |-> a.columns.names, file |-> "None", buffer |-> <<>>]
    IN  [err |-> IF sane # "none" THEN sane
                 ELSE IF cols # "none" THEN cols
                 ELSE prepared.err,
         obj |-> obj]

Line(kind, fields) == [kind |-> kind, fields |-> fields]

\* the file at path is created, or truncated if it exists (mode='w')
Truncate_keep(fsys, path) ==
    [p \in DOMAIN fsys \cup {path} |-> IF p \in DOMAIN fsys THEN fsys[p] ELSE <<>>]

\* an opening that drops the header of an existing file and keeps its rows
Truncate_keep_rows(fsys, path) ==
    [p \in DOMAIN fsys \cup {path} |->
        IF p \notin DOMAIN fsys THEN <<>>
        ELSE IF p = path THEN SelectSeq(fsys[p], LAMBDA l : l.kind = "data")
        ELSE fsys[p]]

Truncate(fsys, path) ==
    [p \in DOMAIN fsys \cup {path} |-> IF p = path THEN <<>> ELSE fsys[p]]

\* lines reach the file at path
ToDisk(fsys, path, lines) == [fsys EXCEPT ![path] = @ \o lines]

\* a file left by an earlier session
OldFile == << Line("comment", <<"# old">>), Line("data", <<"7", "7">>) >>

NoFiles == <<>>

\* the text csv.writer and a float column give a number, and the number a
\* reader gets from that text
Values == {0, 1}
Format(value) == ToString(value)
Parse(text) == CHOOSE value \in Values : Format(value) = text

Texts(items) == [j \in 1 .. Len(items) |-> items[j].v]

\* str.join accepts a string or a list of strings; None and numbers raise TypeError
Joinable(comments) ==
    /\ comments.t \in {"str", "list", "tuple"}
    /\ \A j \in 1 .. Len(comments.items) : comments.items[j].t = "str"

\* the strings str.join iterates over: the characters of a string, the items of a list
JoinTexts(comments) ==
    IF comments.t = "str" /\ comments.items[1].v = "" THEN <<>> ELSE Texts(comments.items)

\* data_writer.py:155-157: the header of a CSV file.  The comments are joined
\* with '\n#\t', so each comment is a line of its own and no comment at all still
\* gives one line.
HeaderIdentifier(obj) ==
    << Line("comment", <<"# Identifier:">>),
       Line("comment", <<"#\t" \o obj.identifier.items[1].v>>) >>

HeaderComments(obj) ==
    LET texts == JoinTexts(obj.comments)
    IN  << Line("comment", <<"# Comments:">>) >>
        \o (IF Len(texts) = 0 THEN << Line("comment", <<"#\t">>) >>
            ELSE [j \in 1 .. Len(texts) |-> Line("comment", <<"#\t" \o texts[j]>>)])

HeaderColumns(obj) ==
    << Line("comment", <<"# Columns:">>),
       Line("comment", <<"#\t" \o join(", ", obj.col_names)>>) >>

\* data_writer.py:134-160.  The file is opened, and so created or truncated,
\* before the comments are joined; the lines written to a CSV file stay in
\* the buffer of the file object, the table of an HDF5 file is created in the file.
_open(fsys, obj) ==
    LET opened == [obj EXCEPT !.file = "open"]
        fs1 == Truncate(fsys, obj.out_file)
    IN  IF obj.out_type = TABLES
        THEN IF ~Joinable(obj.comments)
             THEN [err |-> "TypeError", obj |-> opened, fs |-> fs1]
             ELSE [err |-> "none", obj |-> opened,
                   fs |-> ToDisk(fs1, obj.out_file,
                            << Line("table",
                                    << obj.identifier.items[1].v,
                                       "Comments: " \o join("; ", JoinTexts(obj.comments)) >>) >>)]
        ELSE IF ~Joinable(obj.comments)
             THEN [err |-> "TypeError",
                   obj |-> [opened EXCEPT !.buffer = HeaderIdentifier(obj)],
                   fs |-> fs1]
             ELSE [err |-> "none",
                   obj |-> [opened EXCEPT !.buffer = HeaderIdentifier(obj)
                                \o HeaderComments(obj) \o HeaderColumns(obj)],
                   fs |-> fs1]

\* data_writer.py:162-167: closing an open file writes its buffer out
_close_skipped(fsys, obj) == [obj |-> obj, fs |-> fsys]

_close(fsys, obj) ==
    IF obj.file = "open"
    THEN [obj |-> [obj EXCEPT !.file = "closed", !.buffer = <<>>],
          fs |-> ToDisk(fsys, obj.out_file, obj.buffer)]
    ELSE [obj |-> obj, fs |-> fsys]

\* A dict of row values is the sequence of its items [name, value] in the
\* order Python keeps them: the order of the keywords in the call.
Item(name, value) == [name |-> name, value |-> value]
Keys(data_dict) == { data_dict[j].name : j \in 1 .. Len(data_dict) }
Lookup(data_dict, name) ==
    data_dict[CHOOSE j \in 1 .. Len(data_dict) : data_dict[j].name = name].value

\* data_writer.py:187-211: each value is stored under its column name, so the
\* row has the order of the column names; a table row is appended and flushed,
\* a CSV line is handed to the file object and not flushed
_write_row_in_call_order(fsys, obj, data_dict) ==
    LET row == Line("data", [j \in 1 .. Len(data_dict) |-> Format(data_dict[j].value)])
    IN  IF obj.out_type = TABLES
        THEN [err |-> "none", obj |-> obj, fs |-> ToDisk(fsys, obj.out_file, <<row>>)]
        ELSE [err |-> "none", obj |-> [obj EXCEPT !.buffer = Append(@, row)], fs |-> fsys]

_write_row(fsys, obj, data_dict) ==
    LET row == Line("data", [j \in 1 .. Len(obj.col_names) |->
                                Format(Lookup(data_dict, obj.col_names[j]))])
    IN  IF obj.out_type = TABLES
        THEN [err |-> "none", obj |-> obj, fs |-> ToDisk(fsys, obj.out_file, <<row>>)]
        ELSE [err |-> "none", obj |-> [obj EXCEPT !.buffer = Append(@, row)], fs |-> fsys]

\* dict(zip(self._col_names, row_data))
zip(col_names, row_data) == [j \in 1 .. Len(col_names) |-> Item(col_names[j], row_data[j])]

\* a rejection that leaves an empty row in the file object's buffer
Rejected_partial(e, fsys, obj) ==
    [err |-> e, obj |-> [obj EXCEPT !.buffer = Append(@, Line("data", <<>>))], fs |-> fsys]

\* the raise statements of write_row: nothing of the writer or the files changes
Rejected(e, fsys, obj) == [err |-> e, obj |-> obj, fs |-> fsys]

\* data_writer.py:213-255: row_data is the tuple of positional values,
\* row_items the dict of the keywords
DataWriter_write_row_names_only(fsys, obj, row_data, row_items) ==
    LET len_columns == Len(obj.columns.names)
    IN  IF row_data # <<>> /\ row_items # <<>>
        THEN Rejected("ValueError", fsys, obj)
        ELSE IF row_data # <<>>
        THEN IF Len(row_data) # len_columns
             THEN Rejected("ValueError", fsys, obj)
             ELSE _write_row(fsys, obj, zip(obj.col_names, row_data))
        ELSE IF \E j \in 1 .. Len(obj.col_names) : obj.col_names[j] \notin Keys(row_items)
             THEN Rejected("KeyError", fsys, obj)
             ELSE _write_row(fsys, obj, row_items)

DataWriter_write_row(fsys, obj, row_data, row_items) ==
    LET len_columns == Len(obj.columns.names)
    IN  IF row_data # <<>> /\ row_items # <<>>
        THEN Rejected("ValueError", fsys, obj)
        ELSE IF row_data # <<>>
        THEN IF Len(row_data) # len_columns
             THEN Rejected("ValueError", fsys, obj)
             ELSE _write_row(fsys, obj, zip(obj.col_names, row_data))
        ELSE IF Len(row_items) # len_columns
             THEN Rejected("ValueError", fsys, obj)
             ELSE IF \E j \in 1 .. Len(obj.col_names) : obj.col_names[j] \notin Keys(row_items)
             THEN Rejected("KeyError", fsys, obj)
             ELSE _write_row(fsys, obj, row_items)

----------------------------------------------------------------------------
\* The scans drawn, and what a scan does before it touches the SMU.

ScanCapSets == { OptionalCaps, OptionalCaps \ {"off"}, OptionalCaps \ {"get_on"} }

\* an SMU found off at 0 V, or found on at the voltage a previous scan left
ScanDevices ==
    { [caps |-> c, fmt |-> "none", on |-> o, setpoint |-> IF o THEN 2 * Volt ELSE 0,
       cmds |-> <<>>] :
        c \in ScanCapSets, o \in BOOLEAN }
    \cup { [caps |-> OptionalCaps, fmt |-> "off", on |-> FALSE, setpoint |-> 0,
            cmds |-> <<>>] }

\* bias_voltage, bias_steps, bias_polarity of the scan
ScanBiasArgs ==
    { [bias |-> [scalar |-> TRUE, val |-> v * Volt, list |-> <<>>], steps |-> None,
       polarity |-> 1] : v \in 1 .. MaxScanVolts }
    \cup { [bias |-> [scalar |-> TRUE, val |-> MaxScanVolts * Volt, list |-> <<>>],
            steps |-> s, polarity |-> -1] : s \in {Some(0), Some(1)} }
    \cup { [bias |-> [scalar |-> FALSE, val |-> 0, list |-> l], steps |-> None,
            polarity |-> 1] : l \in { <<3 * Volt>> } }

\* an explicit bias list that goes up and down
NonMonotonicBias ==
    [bias |-> [scalar |-> FALSE, val |-> 0, list |-> <<Volt, 0, Volt>>], steps |-> None,
     polarity |-> 1]

\* How the scan is configured: select is how the SMU is found in the setup
\* ("named": smu_name given, "single": the only driver, "ambiguous": several
\* drivers and no name); comments, identifier and overwrite are the entries of
\* writer_kwargs (comments None: not given); exists: the output file is
\* already on disk.
ScanConfig(select, comments, identifier, overwrite, exists) ==
    [select |-> select, comments |-> comments, identifier |-> identifier,
     overwrite |-> overwrite, exists |-> exists]

BaseConfig == ScanConfig("named", PyNone, OneStr("IV_curve"), FALSE, FALSE)

OtherConfigs ==
    { ScanConfig("single", PyNone, OneStr("IV_curve"), FALSE, FALSE),
      ScanConfig("ambiguous", PyNone, OneStr("IV_curve"), FALSE, FALSE),
      ScanConfig("named", OneStr("note"), OneStr("IV_curve"), FALSE, FALSE),
      ScanConfig("named", OneStr("note"), OneStr("IV_curve"), FALSE, TRUE),
      ScanConfig("named", PyNone, OneStr("IV_curve"), FALSE, TRUE),
      ScanConfig("named", PyNone, OneStr("IV_curve"), TRUE, TRUE),
      ScanConfig("named", PyNone, OneStr(""), FALSE, FALSE),
      ScanConfig("named", OneStr("note"), OneNum("5"), FALSE, FALSE) }

ScanArg(kind, linger, b, cfg) ==
    [kind |-> kind, current_limit |-> 1, linger |-> linger, bias |-> b.bias,
     steps |-> b.steps, polarity |-> b.polarity, cfg |-> cfg]

FirstBias == CHOOSE b \in ScanBiasArgs : b.bias.scalar /\ IsNone(b.steps)

\* the bias arguments of the scans asked to linger: the longer scalar sweeps
\* are left to the scans that do not linger
LingerBiasArgs ==
    { b \in ScanBiasArgs : ~b.bias.scalar \/ ~IsNone(b.steps) \/ b.bias.val = Volt }

ScanArgs ==
    { ScanArg("iv", "False", b, BaseConfig) : b \in ScanBiasArgs }
    \cup { ScanArg("iv", l, b, BaseConfig) :
            l \in {"True", "seconds", "invalid"}, b \in LingerBiasArgs }
    \cup { ScanArg("cv", "False", b, BaseConfig) : b \in ScanBiasArgs }
    \cup { ScanArg("iv", "False", FirstBias, c) : c \in OtherConfigs }
    \cup { ScanArg(k, "False", NonMonotonicBias, BaseConfig) : k \in {"iv", "cv"} }

\* the files the scan finds: outfile is 'scan', the writer is a CSV writer
ScanOutfile == <<"scan">>
ScanDisk(cfg) ==
    IF cfg.exists THEN [p \in {_check_extension(ScanOutfile, CSV)} |-> OldFile] ELSE NoFiles

\* iv.py:95-111 / cv.py:68-89: the arguments the scan gives the DataWriter;
\* without comments in writer_kwargs it writes its own, which name the
\* instruments
WriterArgs(a) ==
    [outfile |-> ScanOutfile,
     columns |-> [t |-> "list", names |-> <<"timestamp", "bias", "current">>],
     identifier |-> a.cfg.identifier, outtype |-> CSV,
     comments |-> IF a.cfg.comments = PyNone
                  THEN PyList(<<PyStr("SMU: name"), PyStr("Current limit: 1")>>)
                  ELSE a.cfg.comments,
     overwrite |-> a.cfg.overwrite]

\* the queries the scan sends for its own comments: smu.get_name() (iv.py:99),
\* or cv.py:71, and lcr.get_name(), lcr.get_meas_func() in cv_scan (cv.py:72-73)
NameQueries(a) ==
    IF a.cfg.comments # PyNone THEN <<>>
    ELSE IF a.kind = "cv" THEN <<"get_name", "get_name", "get_meas_func">>
    ELSE <<"get_name">>

\* iv.py:70-111 / cv.py:58-89: the SMU is picked, the bias sequence generated,
\* the comments prepared and the DataWriter constructed; an exception of any
\* of these ends the call
Configure ==
    /\ pc = "config"
    /\ LET g == generate_bias_volts(args.bias, args.steps, args.polarity, TRUE)
           w == DataWriter_init(ScanDisk(args.cfg), WriterArgs(args))
       IN  IF args.kind = "iv" /\ args.cfg.select = "ambiguous"
           THEN /\ Finish("ValueError")
                /\ events' = events \o <<"config_error">>
                /\ UNCHANGED bias_volts
           ELSE IF g.err # "none"
           THEN /\ Finish(g.err)
                /\ events' = events \o <<"config_error">>
                /\ UNCHANGED bias_volts
           ELSE IF w.err # "none"
           THEN /\ Finish(w.err)
                /\ events' = events \o NameQueries(args) \o <<"config_error">>
                /\ bias_volts' = g.volts
           ELSE /\ pc' = "setup"
                /\ events' = events \o NameQueries(args)
                /\ bias_volts' = g.volts
                /\ UNCHANGED outcome
    /\ UNCHANGED <<smu, args, idx, n_linger, rows, writer, lcr, dut_open,
                   sweep, checks, marks, bias_vars, ramp_vars, writer_vars>>

InitScan ==
    /\ args \in ScanArgs
    /\ smu \in ScanDevices
    /\ bias_volts = <<>>
    /\ pc = "config" /\ idx = 0 /\ n_linger = 0
    /\ rows = <<>> /\ writer = "new" /\ lcr = "unset" /\ dut_open = TRUE
    /\ sweep = "none" /\ outcome = "running" /\ checks = <<>> /\ events = <<>>
    /\ marks = [entered |-> None, left |-> None, reads |-> <<>>]
    /\ IdleBias
    /\ IdleRamp
    /\ IdleWriter

Next ==
    \/ Configure
    \/ Setup \/ InitialRamp \/ LcrSetup
    \/ Enter \/ StepSet \/ StepMeasure \/ SweepDone
    \/ LingerMeasure \/ LingerEnd \/ LingerInterrupt \/ Raise
    \/ TeardownLcr \/ TeardownRamp \/ TeardownOff \/ TeardownClose

Spec == InitScan /\ [][Next]_vars

----------------------------------------------------------------------------
\* Specification of the DataWriter on drawn arguments: the writer is
\* constructed, used in a with statement and written to row by row.

\* largest number of rows a writer is given
MaxRows == 2

\* largest number of rejected calls the block recovers from
MaxCaught == 1

Names == <<"bias", "current">>

Outfiles == { <<"scan">>, <<"scan", ".csv">>, <<"scan", ".CSV">> }

ColumnArgs == { [t |-> "list", names |-> Names], [t |-> "dtype", names |-> Names],
                [t |-> "str", names |-> <<>>] }

Identifiers == { OneStr("IV_curve"), OneStr(""), OneNum("5") }

CommentArgs ==
    { PyNone, OneStr("note"), OneStr(""), OneNum("0"), OneNum("5"), PyList(<<>>),
      PyList(<<PyStr("SMU: x"), PyStr("Current limit: 1")>>),
      PyList(<<PyStr("SMU: x"), PyNum("1")>>) }

WriterInputs ==
    { [outfile |-> o, columns |-> c, identifier |-> i, outtype |-> t, comments |-> m,
       overwrite |-> w] :
        o \in Outfiles, c \in ColumnArgs, i \in Identifiers, t \in {CSV, TABLES},
        m \in CommentArgs, w \in BOOLEAN }

\* the disk holds no file, or an old file at the path as given, or an old file
\* at the path the writer will use
Disks(a) ==
    { NoFiles } \cup { [p \in {q} |-> OldFile] :
                        q \in {a.outfile, _check_extension(a.outfile, a.outtype)} }

\* the calls of write_row drawn: positional values, keywords, and both
RowDatas == UNION { [1 .. k -> Values] : k \in 0 .. Len(Names) + 1 }
Keywords == { Names[j] : j \in 1 .. Len(Names) } \cup {"extra"}
RowItems ==
    { i \in UNION { [1 .. k -> { Item(n, v) : n \in Keywords, v \in Values }] :
                        k \in 0 .. Cardinality(Keywords) } :
        \A j, k \in 1 .. Len(i) : j # k => i[j].name # i[k].name }
Calls ==
    { [row_data |-> d, row_items |-> <<>>] : d \in RowDatas }
    \cup { [row_data |-> <<>>, row_items |-> i] : i \in RowItems }
    \cup { [row_data |-> <<0, 1>>, row_items |-> zip(Names, <<0, 1>>)] }

NoCall == [row_data |-> <<>>, row_items |-> <<>>]

\* the calls a session makes: rows of positional values, a row of keywords
\* in another order than the columns, and calls a writer rejects
SessionCalls ==
    { [row_data |-> d, row_items |-> <<>>] : d \in [1 .. Len(Names) -> Values] }
    \cup { [row_data |-> <<>>, row_items |-> <<Item("current", 1), Item("bias", 0)>>],
           [row_data |-> <<0>>, row_items |-> <<>>],
           [row_data |-> <<>>, row_items |-> <<Item("bias", 0), Item("extra", 1)>>] }

InitWriter ==
    /\ w_in \in WriterInputs
    /\ fs \in Disks(w_in)
    /\ dw = [pc |-> "new", obj |-> <<>>, exc |-> "none"]
    /\ w_out = [call |-> NoCall, err |-> "none", accepted |-> <<>>, raised |-> "none",
                before |-> fs, lost |-> <<>>, caught |-> 0]
    /\ IdleBias
    /\ IdleSmu
    /\ IdleRamp
    /\ IdleScan

\* DataWriter(outfile, **kwargs)
Construct ==
    /\ dw.pc = "new"
    /\ LET r == DataWriter_init(fs, w_in)
       IN  /\ dw' = [pc |-> IF r.err = "none" THEN "constructed" ELSE "failed",
                     obj |-> r.obj, exc |-> "none"]
           /\ w_out' = [w_out EXCEPT !.raised = r.err]
    /\ UNCHANGED <<w_in, fs, bias_vars, smu, ramp_vars, scan_vars>>

\* with data_writer as writer: __enter__ (data_writer.py:169-178); when it
\* raises, the block is not entered and __exit__ is not called
EnterWith ==
    /\ dw.pc = "constructed"
    /\ LET r == _open(fs, dw.obj)
       IN  /\ dw' = [dw EXCEPT !.pc = IF r.err = "none" THEN "inside" ELSE "enter_failed",
                               !.obj = r.obj]
           /\ fs' = r.fs
           /\ w_out' = [w_out EXCEPT !.raised = r.err]
    /\ UNCHANGED <<w_in, bias_vars, smu, ramp_vars, scan_vars>>

\* writer.write_row(...) inside the block; a rejected call raises
WriteRow ==
    /\ dw.pc = "inside" /\ dw.exc = "none"
    /\ Len(w_out.accepted) < MaxRows
    /\ \E c \in SessionCalls :
         LET r == DataWriter_write_row(fs, dw.obj, c.row_data, c.row_items)
         IN  /\ dw' = [dw EXCEPT !.obj = r.obj, !.exc = r.err]
             /\ fs' = r.fs
             /\ w_out' = [w_out EXCEPT !.call = c, !.err = r.err,
                              !.accepted = IF r.err = "none" THEN Append(@, c) ELSE @]
    /\ UNCHANGED <<w_in, bias_vars, smu, ramp_vars, scan_vars>>

\* the block handles the ValueError or KeyError of a rejected write_row
\* (data_writer.py:228-234) in a try statement of its own and goes on
CatchRejected ==
    /\ dw.pc = "inside" /\ dw.exc \in {"ValueError", "KeyError"}
    /\ w_out.caught < MaxCaught
    /\ dw' = [dw EXCEPT !.exc = "none"]
    /\ w_out' = [w_out EXCEPT !.caught = @ + 1]
    /\ UNCHANGED <<w_in, fs, bias_vars, smu, ramp_vars, scan_vars>>

\* another statement of the block raises (an interrupt, a device error)
BlockRaises ==
    /\ dw.pc = "inside" /\ dw.exc = "none"
    /\ dw' = [dw EXCEPT !.exc = "KeyboardInterrupt"]
    /\ UNCHANGED <<w_in, fs, w_out, bias_vars, smu, ramp_vars, scan_vars>>

\* the block is left, at its end, by a break or by the exception pending:
\* __exit__ (data_writer.py:180-185) closes the file and returns None, so
\* the exception goes on to the caller
ExitWith ==
    /\ dw.pc = "inside"
    /\ LET r == _close(fs, dw.obj)
       IN  /\ dw' = [dw EXCEPT !.pc = "left", !.obj = r.obj]
           /\ fs' = r.fs
    /\ w_out' = [w_out EXCEPT !.raised = dw.exc]
    /\ UNCHANGED <<w_in, bias_vars, smu, ramp_vars, scan_vars>>

\* the file object writes its buffer out when the buffer is full
Spill ==
    /\ dw.pc = "inside" /\ dw.obj.file = "open" /\ dw.obj.buffer # <<>>
    /\ fs' = ToDisk(fs, dw.obj.out_file, dw.obj.buffer)
    /\ dw' = [dw EXCEPT !.obj.buffer = <<>>]
    /\ UNCHANGED <<w_in, w_out, bias_vars, smu, ramp_vars, scan_vars>>

\* the process dies: what the file object had not written out is lost
Crash ==
    /\ dw.pc \in {"inside", "enter_failed"}
    /\ dw' = [dw EXCEPT !.pc = "crashed", !.obj.buffer = <<>>]
    /\ w_out' = [w_out EXCEPT !.lost = dw.obj.buffer]
    /\ UNCHANGED <<w_in, fs, bias_vars, smu, ramp_vars, scan_vars>>

NextWriter ==
    \/ Construct \/ EnterWith \/ WriteRow \/ CatchRejected \/ BlockRaises \/ ExitWith
    \/ Spill \/ Crash

SpecWriter == InitWriter /\ [][NextWriter]_vars

----------------------------------------------------------------------------
\* Specification of write_row on drawn calls: a writer of each output kind,
\* constructed and opened on an empty disk, is given one call.

RowWriterInputs ==
    { [outfile |-> <<"scan">>, columns |-> [t |-> c, names |-> Names],
       identifier |-> OneStr("IV_curve"), outtype |-> IF c = "dtype" THEN TABLES ELSE CSV,
       comments |-> OneStr("note"), overwrite |-> FALSE] : c \in {"list", "tuple", "dtype"} }

InitRow ==
    /\ w_in \in RowWriterInputs
    /\ LET opened == _open(NoFiles, DataWriter_init(NoFiles, w_in).obj)
       IN  /\ dw = [pc |-> "inside", obj |-> opened.obj, exc |-> "none"]
           /\ fs = opened.fs
    /\ w_out \in { [call |-> c, err |-> "none", accepted |-> <<>>, raised |-> "none",
                     before |-> NoFiles, lost |-> <<>>, caught |-> 0] : c \in Calls }
    /\ IdleBias
    /\ IdleSmu
    /\ IdleRamp
    /\ IdleScan

CallWriteRow ==
    /\ dw.pc = "inside" /\ dw.exc = "none" /\ w_out.accepted = <<>>
    /\ LET r == DataWriter_write_row(fs, dw.obj, w_out.call.row_data, w_out.call.row_items)
       IN  /\ dw' = [dw EXCEPT !.obj = r.obj, !.exc = r.err]
           /\ fs' = r.fs
           /\ w_out' = [w_out EXCEPT !.err = r.err,
                            !.accepted = IF r.err = "none" THEN <<w_out.call>> ELSE @]
    /\ UNCHANGED <<w_in, bias_vars, smu, ramp_vars, scan_vars>>

NextRow == CallWriteRow

SpecRow == InitRow /\ [][NextRow]_vars

----------------------------------------------------------------------------
\* Specification of two sessions on one path: a writer of each output kind,
\* constructed where the path does not exist or may be overwritten, is entered,
\* written to and left; then the same writer is entered again, or a second
\* writer is, which was constructed for the same path.

ReuseInputs ==
    { [outfile |-> <<"scan">>, columns |-> [t |-> c, names |-> Names],
       identifier |-> OneStr("IV_curve"), outtype |-> IF c = "dtype" THEN TABLES ELSE CSV,
       comments |-> OneStr("note"), overwrite |-> w] :
        c \in {"list", "dtype"}, w \in BOOLEAN }

\* the disks on which the construction of the first writer succeeds
ReuseDisks(a) ==
    { d \in Disks(a) : DataWriter_init(d, a).err = "none" }

\* the rows a session writes
ReuseCalls ==
    { [row_data |-> <<0, 1>>, row_items |-> <<>>],
      [row_data |-> <<>>, row_items |-> <<Item("current", 0), Item("bias", 1)>>] }

\* dw.spare is the second writer, once constructed; w_out.session tells
\* which session is running ("first", "again": the same writer entered again,
\* "second": the second writer entered), w_out.second what the construction of the second
\* writer gave and whether the path existed then, w_out.earlier the file the
\* first session left
InitReuse ==
    /\ w_in \in ReuseInputs
    /\ fs \in ReuseDisks(w_in)
    /\ dw = [pc |-> "constructed", obj |-> DataWriter_init(fs, w_in).obj, exc |-> "none",
             spare |-> <<>>]
    /\ w_out = [call |-> NoCall, err |-> "none", accepted |-> <<>>, raised |-> "none",
                before |-> fs, lost |-> <<>>, caught |-> 0,
                session |-> "first", second |-> [err |-> "none", existed |-> FALSE],
                earlier |-> <<>>]
    /\ IdleBias
    /\ IdleSmu
    /\ IdleRamp
    /\ IdleScan

\* a second DataWriter(outfile, **kwargs) with the arguments of the first,
\* before the first is entered or after it was left
ConstructSecond ==
    /\ dw.pc \in {"constructed", "left"} /\ w_out.session = "first"
    /\ dw.spare = <<>> /\ w_out.second.err = "none"
    /\ LET r == DataWriter_init(fs, w_in)
       IN  /\ dw' = [dw EXCEPT !.spare = IF r.err = "none" THEN <<r.obj>> ELSE <<>>]
           /\ w_out' = [w_out EXCEPT !.second = [err |-> r.err,
                                                 existed |-> isfile(fs, r.obj.out_file)]]
    /\ UNCHANGED <<w_in, fs, bias_vars, smu, ramp_vars, scan_vars>>

\* writer.write_row(...) with one value per column
ReuseWriteRow ==
    /\ dw.pc = "inside" /\ dw.exc = "none"
    /\ Len(w_out.accepted) < MaxRows
    /\ \E c \in ReuseCalls :
         LET r == DataWriter_write_row(fs, dw.obj, c.row_data, c.row_items)
         IN  /\ dw' = [dw EXCEPT !.obj = r.obj, !.exc = r.err]
             /\ fs' = r.fs
             /\ w_out' = [w_out EXCEPT !.call = c, !.err = r.err,
                              !.accepted = IF r.err = "none" THEN Append(@, c) ELSE @]
    /\ UNCHANGED <<w_in, bias_vars, smu, ramp_vars, scan_vars>>

\* the with statement on the writer obj
OpenAgain(obj, session) ==
    /\ LET r == _open(fs, obj)
       IN  /\ dw' = [dw EXCEPT !.pc = IF r.err = "none" THEN "inside" ELSE "enter_failed",
                               !.obj = r.obj, !.exc = "none"]
           /\ fs' = r.fs
           /\ w_out' = [w_out EXCEPT !.session = session, !.raised = r.err,
                            !.accepted = <<>>, !.earlier = fs[obj.out_file]]
    /\ UNCHANGED <<w_in, bias_vars, smu, ramp_vars, scan_vars>>

\* after the first session was left, the same writer is entered a second time
EnterAgain ==
    /\ dw.pc = "left" /\ w_out.session = "first"
    /\ OpenAgain(dw.obj, "again")

\* after the first session was left, the second writer is entered
EnterSecond ==
    /\ dw.pc = "left" /\ w_out.session = "first"
    /\ dw.spare # <<>>
    /\ OpenAgain(dw.spare[1], "second")

NextReuse ==
    \/ EnterWith \/ ReuseWriteRow \/ ExitWith
    \/ ConstructSecond \/ EnterAgain \/ EnterSecond

SpecReuse == InitReuse /\ [][NextReuse]_vars

----------------------------------------------------------------------------
\* Specification of the start of a scan on drawn devices: setup_voltage_source
\* and the initial ramp to 0 V (iv.py:114-117, cv.py:92-95), for a driver
\* with any set of the optional commands.

SetupDevices ==
    { [caps |-> c, fmt |-> "none", on |-> o, setpoint |-> v * Volt, cmds |-> <<>>] :
        c \in SUBSET OptionalCaps, o \in BOOLEAN, v \in {0, MaxSetpointVolts} }

\* the bias sequences of the scans drawn, the empty one of bias_steps=0 included
SetupBiases == { <<>>, <<0, Volt>>, <<3 * Volt>> }

SetupInputs == { [bias_voltage |-> b, current_limit |-> 1] : b \in SetupBiases }

InitSetup ==
    /\ smu \in SetupDevices
    /\ r_in \in SetupInputs
    /\ r_out = <<>>
    /\ IdleBias
    /\ IdleScan
    /\ IdleWriter

\* iv.py:114 / cv.py:92
CallSetup ==
    /\ r_out = <<>>
    /\ \E e0 \in ScanReadErrors, e1 \in ScanReadErrors :
         LET r == setup_voltage_source(smu, r_in.bias_voltage, r_in.current_limit, e0, e1)
         IN  /\ smu' = r.smu
             /\ r_out' = <<[stage |-> "setup", err |-> r.err, walked |-> r.walked,
                            before |-> smu]>>
    /\ UNCHANGED <<r_in, bias_vars, scan_vars, writer_vars>>

\* iv.py:117 / cv.py:95, reached when the setup raised nothing
CallInitialRamp ==
    /\ r_out # <<>> /\ r_out[1].stage = "setup" /\ r_out[1].err = "none"
    /\ \E e0 \in ScanReadErrors, e1 \in ScanReadErrors :
         LET r == ramp_voltage(smu, 0, None, e0, e1)
         IN  /\ smu' = r.smu
             /\ r_out' = <<[r_out[1] EXCEPT !.stage = "ramp0", !.err = r.err,
                                            !.walked = r.walked]>>
    /\ UNCHANGED <<r_in, bias_vars, scan_vars, writer_vars>>

NextSetup == CallSetup \/ CallInitialRamp

SpecSetup == InitSetup /\ [][NextSetup]_vars

----------------------------------------------------------------------------
\* Properties.

Range(f) == { f[j] : j \in DOMAIN f }

Done == pc = "done"

\* the set_voltage commands the sweep loop sent: those logged between entering
\* and leaving the try block
SweepSets ==
    IF IsNone(marks.entered) THEN <<>>
    ELSE LET from == Val(marks.entered)
             to   == IF IsNone(marks.left) THEN Len(smu.cmds) ELSE Val(marks.left)
         IN  [j \in 1 .. to - from |-> smu.cmds[from + j]]

\* a reading above the limit and below the out-of-range marker
Over(c) == c > args.current_limit /\ c < Sentinel

\* number of interlock readings that did not exceed the limit
Passed == Cardinality({ k \in 1 .. Len(checks) : ~Over(checks[k]) })

\* what the caller must observe if the teardown does not change the outcome
SweepOutcome == IF Normal(sweep) THEN "returned" ELSE sweep

\* C1: whenever iv_scan or cv_scan has returned or raised after it reached the
\* device setup, whichever state it left (device setup, initial ramp, stepping,
\* lingering) and however, the return-to-zero ramp of the teardown has been
\* executed.
C1_TeardownRampAlwaysRuns ==
    (Done /\ "setup" \in Range(events)) => "td_ramp" \in Range(events)

\* C2: if the first interlock reading (the current read right after
\* set_voltage) above the limit and below the out-of-range marker is that of
\* step k (counted from 1 here), then exactly the rows of steps 1 .. k-1 are
\* written, now and ever after; the sweep has set the bias values 1 .. k and no
\* later one; the try block was left by the break, not by an exception; and
\* the scan goes on to the return-to-zero ramp.
C2_InterlockAbort ==
    \A k \in 1 .. Len(checks) :
        (Over(checks[k]) /\ \A j \in 1 .. k - 1 : ~Over(checks[j])) =>
            /\ Len(rows) = k - 1
            /\ \A j \in 1 .. k - 1 : rows[j].bias = bias_volts[j]
            /\ SweepSets = [j \in 1 .. k |-> Cmd("set_voltage", bias_volts[j])]
            /\ sweep = "trip"
            /\ pc \in {"td_lcr", "td_ramp", "td_off", "td_close", "done"}
            /\ pc \in {"td_off", "td_close", "done"} => "td_ramp" \in Range(events)

\* a scan that tripped at its second step has ended
C2_Witness ==
    /\ Done
    /\ Len(checks) = 2 /\ Over(checks[2]) /\ ~Over(checks[1])
    /\ Len(rows) = 1

\* C3: in iv_scan, when the return-to-zero ramp of the teardown has failed,
\* the power-off (if the driver defines off) and dut.close have still been
\* executed when the call ends.
C3_IvPowerOffAfterFailedRamp ==
    (Done /\ args.kind = "iv" /\ "td_ramp_failed" \in Range(events)) =>
        /\ Defines(smu, "off") => "td_off" \in Range(events)
        /\ "td_close" \in Range(events)

\* C4: in iv_scan, a failed return-to-zero ramp does not change what the
\* caller observes: the exception that left the sweep, or a normal return
\* after a completed or tripped sweep.
C4_IvOutcomeNotMasked ==
    (Done /\ args.kind = "iv" /\ "td_ramp_failed" \in Range(events)) =>
        outcome = SweepOutcome

\* C5: in cv_scan, when the return-to-zero ramp of the teardown has failed,
\* the power-off (if the driver defines off) and dut.close have been executed
\* when the call ends, and the caller observes the outcome of the sweep.
C5_CvRampFailureSuppressed ==
    (Done /\ args.kind = "cv" /\ "td_ramp_failed" \in Range(events)) =>
        /\ Defines(smu, "off") => "td_off" \in Range(events)
        /\ "td_close" \in Range(events)
        /\ outcome = SweepOutcome

\* C6: the rows of the sweep are written in bias-sequence order, the j-th row
\* carrying the j-th bias value, and one row per bias step that passed the
\* interlock check: between two steps there are as many rows as readings that
\* passed, and while a step is being measured one less.
C6_RowsInBiasOrder ==
    /\ \A j \in 1 .. Len(rows) : j <= Len(bias_volts) => rows[j].bias = bias_volts[j]
    /\ pc \in {"step", "measure"} => Len(rows) <= Len(bias_volts)
    /\ pc = "step" => Len(rows) = Passed
    /\ pc = "measure" => Len(rows) = Passed - 1
    /\ pc \in {"setup", "ramp0", "lcr", "enter"} => rows = <<>>
    /\ Len(rows) <= Passed + n_linger

\* the sweep is past its second step, two rows written
C6_Witness == pc = "step" /\ Len(rows) = 2 /\ idx = 2

\* ---- ramp_voltage

RampOut == r_out[1]

RampCalled == r_out # <<>>

\* C7, as stated: a ramp_voltage call whose target equals the voltage read at
\* entry sends no command that changes the device, whatever the device's
\* state, and returns without error.
C7_NoWritesAtTarget ==
    (RampCalled /\ RampOut.entry = r_in.target_voltage) =>
        /\ smu.cmds = <<>>
        /\ RampOut.err = "none"

\* C7, amended: such a call sends no set_voltage and returns without error
\* with the commanded voltage unchanged; the only commands it sends are on,
\* exactly when the device answers get_on with off and the driver defines on,
\* and enable_formatting, exactly when the driver has formatting disabled.
C7_NoSetVoltageAtTarget ==
    (RampCalled /\ RampOut.entry = r_in.target_voltage) =>
        LET before == RampOut.before
            turned_on == Defines(before, "get_on") /\ ~before.on /\ Defines(before, "on")
        IN  /\ RampOut.err = "none"
            /\ ~RampOut.walked
            /\ smu.setpoint = before.setpoint
            /\ smu.cmds = (IF turned_on THEN <<Cmd("on", 0)>> ELSE <<>>)
                          \o (IF before.fmt = "off" THEN <<Cmd("enable_formatting", 0)>>
                              ELSE <<>>)

\* a call at its target on a device that reported off and was turned on
C7_Witness ==
    /\ RampCalled /\ RampOut.entry = r_in.target_voltage
    /\ ~RampOut.before.on /\ Cmd("on", 0) \in Range(smu.cmds)

\* C8: a ramp_voltage call that walked its path raises RuntimeError exactly
\* when the voltage read back differs from the target by more than one volt.
C8_ConvergenceWithinOneVolt ==
    (RampCalled /\ RampOut.walked) =>
        (RampOut.err = "RuntimeError"
            <=> Abs(RampOut.readback - r_in.target_voltage) > Atol * Volt)

\* ---- generate_bias_volts

BiasOut == g_out[1]

BiasCalled == g_out # <<>>

\* C9: for an accepted scalar bias the sequence starts at 0, ends at the bias
\* with the sign of the polarity, has exactly steps points when steps is
\* given and at least 2 points when it is not.
C9_ScalarEndpoints ==
    (BiasCalled /\ g_in.bias.scalar /\ BiasOut.err = "none") =>
        LET v == BiasOut.volts
            sign == IF g_in.polarity >= 0 THEN 1 ELSE -1
        IN  /\ Len(v) >= 1
            /\ v[1] = 0
            /\ v[Len(v)] = sign * g_in.bias.val
            /\ ~IsNone(g_in.steps) => Len(v) = Val(g_in.steps)
            /\ IsNone(g_in.steps) => Len(v) >= 2

NonDecreasing(a) == \A j, k \in 1 .. Len(a) : j < k => a[j] <= a[k]
NonIncreasing(a) == \A j, k \in 1 .. Len(a) : j < k => a[j] >= a[k]

\* C10: for an explicit bias list, with check_monotonic the call succeeds
\* exactly when the list scaled by the polarity is entirely non-decreasing or
\* entirely non-increasing and fails with ValueError otherwise; without it the
\* call always succeeds; a successful call returns the scaled values in input
\* order.
C10_MonotonicCheck ==
    (BiasCalled /\ ~g_in.bias.scalar) =>
        LET l == g_in.bias.list
            scaled == [j \in 1 .. Len(l) |-> l[j] * g_in.polarity]
            monotonic == NonDecreasing(scaled) \/ NonIncreasing(scaled)
        IN  /\ (g_in.check_monotonic /\ ~monotonic) => BiasOut = Err("ValueError")
            /\ (g_in.check_monotonic /\ monotonic) => BiasOut = Ok(scaled)
            /\ ~g_in.check_monotonic => BiasOut = Ok(scaled)

\* a list that goes up and then down was rejected
C10_Witness ==
    /\ BiasCalled /\ ~g_in.bias.scalar /\ g_in.check_monotonic
    /\ Len(g_in.bias.list) = 3
    /\ g_in.bias.list[1] < g_in.bias.list[2] /\ g_in.bias.list[2] > g_in.bias.list[3]
    /\ g_in.polarity = 1
    /\ BiasOut.err = "ValueError"

\* C11: every sequence returned by generate_bias_volts, for a scalar or an
\* explicit bias and every accepted steps value, has at least one element.
C11_NeverEmpty ==
    (BiasCalled /\ BiasOut.err = "none") => Len(BiasOut.volts) >= 1

\* ---- DataWriter

\* the path the writer uses
Target == _check_extension(w_in.outfile, w_in.outtype)

SchemaNames == { w_in.columns.names[j] : j \in 1 .. Len(w_in.columns.names) }

\* write_row has been called; w_out.call is the last call, w_out.err its result
WriteCalled == w_out.accepted # <<>> \/ w_out.err # "none"

Positional(c) == c.row_data # <<>> /\ c.row_items = <<>>
Keyworded(c) == c.row_data = <<>> /\ c.row_items # <<>>

DataRows(lines) == SelectSeq(lines, LAMBDA l : l.kind = "data")
CommentLines(lines) == SelectSeq(lines, LAMBDA l : l.kind = "comment")

\* what the writer's file holds: the lines on disk and those in the buffer
FileView == fs[dw.obj.out_file] \o dw.obj.buffer

\* C12, as stated: a positional call with another count than the schema fails
\* with ValueError, a keyword call whose names are not the schema names fails
\* with KeyError whatever the number of keywords, and a keyword call with
\* exactly the schema names is accepted.
C12_SchemaMismatch ==
    WriteCalled =>
        LET c == w_out.call
        IN  /\ (Positional(c) /\ Len(c.row_data) # Len(w_in.columns.names))
                    => w_out.err = "ValueError"
            /\ (Keyworded(c) /\ Keys(c.row_items) # SchemaNames) => w_out.err = "KeyError"
            /\ (Keyworded(c) /\ Keys(c.row_items) = SchemaNames) => w_out.err = "none"

\* C12, amended: a keyword call fails with ValueError when the number of
\* keywords differs from the schema length and with KeyError when the number
\* is the schema length but the names are not the schema names; positional
\* calls and matching keyword calls are as stated.
C12_SchemaMismatchByCount ==
    WriteCalled =>
        LET c == w_out.call
            n == Len(w_in.columns.names)
        IN  /\ (Positional(c) /\ Len(c.row_data) # n) => w_out.err = "ValueError"
            /\ (Positional(c) /\ Len(c.row_data) = n) => w_out.err = "none"
            /\ (Keyworded(c) /\ Len(c.row_items) # n) => w_out.err = "ValueError"
            /\ (Keyworded(c) /\ Len(c.row_items) = n /\ Keys(c.row_items) # SchemaNames)
                    => w_out.err = "KeyError"
            /\ (Keyworded(c) /\ Keys(c.row_items) = SchemaNames) => w_out.err = "none"

\* a table writer rejected two keywords, one of them not a column, with KeyError
C12_Witness ==
    /\ WriteCalled /\ w_in.outtype = TABLES
    /\ Keyworded(w_out.call) /\ Len(w_out.call.row_items) = 2
    /\ "extra" \in Keys(w_out.call.row_items)
    /\ w_out.err = "KeyError"

\* the values a call supplies, in the order of the schema
Supplied(c) ==
    IF Positional(c) THEN c.row_data
    ELSE [j \in 1 .. Len(w_in.columns.names) |->
            LET k == CHOOSE k \in 1 .. Len(c.row_items) :
                        c.row_items[k].name = w_in.columns.names[j]
            IN  c.row_items[k].value]

\* C14: the row stored for an accepted call holds, column by column in the
\* declared order, the values supplied, whatever the order of the keywords;
\* so a positional call and the keyword call with the same values store the
\* same row.
C14_RoundTripInSchemaOrder ==
    (WriteCalled /\ w_out.err = "none") =>
        LET stored == DataRows(FileView)
        IN  /\ Len(stored) = 1
            /\ [j \in 1 .. Len(stored[1].fields) |-> Parse(stored[1].fields[j])]
                    = Supplied(w_out.call)

\* a keyword call naming the last column first, with different values, accepted
C14_Witness ==
    /\ WriteCalled /\ w_out.err = "none"
    /\ w_out.call.row_items = <<Item("current", 1), Item("bias", 0)>>

Existed == Target \in DOMAIN w_out.before

\* arguments other than the path and the overwrite flag are acceptable
OtherArgsValid ==
    /\ w_in.identifier.t = "str" /\ w_in.identifier.items[1].v # ""
    /\ w_in.columns.t \in (IF w_in.outtype = TABLES THEN {"dtype"} ELSE {"list", "tuple"})
    /\ \/ w_in.comments.t = "None"
       \/ /\ w_in.comments.t \in {"str", "list", "tuple"}
          /\ \A j \in 1 .. Len(w_in.comments.items) : w_in.comments.items[j].t = "str"

Constructing == dw.pc # "new"
Opened == dw.pc \in {"inside", "left", "enter_failed", "crashed"}

\* C13: when the path the writer uses already exists, construction without
\* overwrite fails with IOError and leaves the files as they were; with
\* overwrite construction succeeds, and once the writer is opened nothing of
\* the old file is left.
C13_OverwriteProtection ==
    /\ (Constructing /\ Existed /\ ~w_in.overwrite)
            => (dw.pc = "failed" /\ w_out.raised = "IOError" /\ fs = w_out.before)
    /\ (Constructing /\ Existed /\ w_in.overwrite /\ OtherArgsValid) => dw.pc # "failed"
    /\ (Opened /\ Existed)
            => \A j \in 1 .. Len(fs[Target]) : fs[Target][j] \notin Range(OldFile)

\* a writer allowed to overwrite replaced an old file by a session of one row
C13_Witness ==
    /\ dw.pc = "left" /\ Existed /\ w_in.overwrite
    /\ Len(w_out.accepted) = 1
    /\ Len(DataRows(fs[Target])) = 1

\* C15: whenever write_row has returned, every row accepted so far is in the
\* file on disk, so that a crash loses none of them.
C15_RowsPersistedAtOnce ==
    dw.pc \in {"inside", "crashed"} =>
        Len(DataRows(fs[dw.obj.out_file])) = Len(w_out.accepted)

\* C16: once the with block is left, at its end, by a break or by an
\* exception, a rejected write_row included, the file is closed and the
\* exception, if any, has reached the caller.
C16_ScopeClosesFile ==
    dw.pc = "left" =>
        /\ dw.obj.file = "closed"
        /\ w_out.raised = dw.exc
        /\ dw.exc \in {"ValueError", "KeyError"} => w_out.raised = w_out.err

\* a block left by the KeyError of a rejected write_row
C16_Witness ==
    /\ dw.pc = "left" /\ w_out.raised = "KeyError" /\ Len(w_out.accepted) = 1

\* C17: a writer constructed without comments can be opened, for either
\* output kind, and leaves no opened file unclosed.
C17_CommentsOptional ==
    (w_in.comments = PyNone /\ Constructing /\ dw.pc # "failed") =>
        /\ dw.pc # "enter_failed"
        /\ dw.pc \in {"left", "crashed"} => dw.obj.file # "open"

\* the arguments the constructor has to reject
BadArgs ==
    \/ w_in.identifier.t # "str" \/ w_in.identifier.items[1].v = ""
    \/ w_in.columns.t \notin (IF w_in.outtype = TABLES THEN {"dtype"} ELSE {"list", "tuple"})
    \/ /\ w_in.comments.t # "None"
       /\ \/ w_in.comments.t \notin {"str", "list", "tuple"}
          \/ \E j \in 1 .. Len(w_in.comments.items) : w_in.comments.items[j].t # "str"

\* C18: construction fails, and no file is created or changed, when the
\* identifier is empty or not a string, the schema does not fit the output
\* kind, or comments are given that are not a string or a list of strings;
\* otherwise it succeeds when the path is free or overwrite is allowed.
C18_ConstructionChecks ==
    Constructing =>
        /\ BadArgs => dw.pc = "failed"
        /\ dw.pc \in {"failed", "constructed"} => fs = w_out.before
        /\ (~BadArgs /\ (~Existed \/ w_in.overwrite)) => dw.pc # "failed"

\* C20: a CSV file that was opened, written and closed starts with exactly 3
\* comment lines and continues with one data line per accepted row, in write
\* order and schema column order, and nothing else.
C20_CsvFileLayout ==
    (dw.pc = "left" /\ w_in.outtype = CSV) =>
        LET file == fs[Target]
            n == Len(w_out.accepted)
        IN  /\ Len(file) = 3 + n
            /\ \A j \in 1 .. Len(file) : file[j].kind = (IF j <= 3 THEN "comment" ELSE "data")
            /\ \A j \in 1 .. n :
                 [k \in 1 .. Len(file[3 + j].fields) |-> Parse(file[3 + j].fields[k])]
                    = Supplied(w_out.accepted[j])

\* ---- configuration errors of a scan

\* the call ended with a configuration error: ambiguous device selection,
\* non-monotonic bias list, a DataWriter that could not be constructed, or
\* an invalid linger value
ConfigError ==
    /\ Done
    /\ \/ "config_error" \in Range(events)
       \/ args.linger = "invalid" /\ sweep = "ValueError"

\* C19: when a scan ends with a configuration error, no command and no query
\* has been sent to an instrument.
C19_ConfigErrorsBeforeDeviceIO ==
    ConfigError =>
        /\ smu.cmds = <<>>
        /\ checks = <<>>
        /\ Range(events) \cap {"get_name", "get_meas_func", "setup"} = {}

\* ---- lingering, interlock and teardown of the scans

Lingering == pc = "linger" \/ n_linger > 0

LastBias == bias_volts[Len(bias_volts)]

\* position of the first occurrence of e in events, 0 if there is none
FirstAt(e) ==
    IF e \in Range(events) THEN CHOOSE j \in 1 .. Len(events) :
                                    events[j] = e /\ \A k \in 1 .. j - 1 : events[k] # e
    ELSE 0

\* C21: lingering is entered only when the caller asked for it and the sweep
\* visited every bias point with no interlock trip and no exception; after a
\* trip no lingering measurement is taken and no row is written.
C21_LingerOnlyAfterFullSweep ==
    /\ Lingering =>
         /\ args.linger \in {"True", "seconds"}
         /\ idx = Len(bias_volts) /\ Len(checks) = Len(bias_volts)
         /\ \A k \in 1 .. Len(checks) : ~Over(checks[k])
         /\ Len(rows) >= Len(bias_volts)
    /\ (\E k \in 1 .. Len(checks) : Over(checks[k])) =>
         /\ ~Lingering
         /\ Len(rows) = Len(checks) - 1

\* a scan asked to linger has ended after one lingering measurement
C21_Witness == Done /\ args.linger = "True" /\ n_linger = 1 /\ Len(bias_volts) = 2

\* C22: after the operator's interrupt during lingering the transfer layer
\* has been read before the teardown ramp, the writer is closed with every
\* row kept, and the call ends with the whole teardown done (ramp, power-off
\* if defined, dut.close) and no exception.
C22_InterruptEndsLingering ==
    "drain" \in Range(events) =>
        /\ sweep = "completed"
        /\ writer = "closed"
        /\ Len(rows) = Len(bias_volts) + n_linger
        /\ "td_ramp" \in Range(events) => FirstAt("drain") < FirstAt("td_ramp")
        /\ Done =>
             /\ outcome = "returned"
             /\ "td_ramp" \in Range(events)
             /\ Defines(smu, "off") => "td_off" \in Range(events)
             /\ "td_close" \in Range(events)
             /\ ~dut_open

\* C23: every lingering iteration writes one row, at the last value of the
\* bias sequence, and lingering sends no set_voltage: the sweep loop has sent
\* one per bias point and the setpoint stays at the last bias.
C23_LingerRowsAtLastBias ==
    Lingering =>
        /\ Len(rows) = Len(bias_volts) + n_linger
        /\ \A j \in 1 .. n_linger : rows[Len(bias_volts) + j].bias = LastBias
        /\ SweepSets = [j \in 1 .. Len(bias_volts) |-> Cmd("set_voltage", bias_volts[j])]
        /\ pc = "linger" => smu.setpoint = LastBias

\* a lingering measurement after a sweep of two bias points
C23_Witness == pc = "linger" /\ n_linger = 1 /\ Len(bias_volts) = 2 /\ Len(rows) = 3

\* C24: an interlock reading at or above the out-of-range marker does not
\* abort the sweep, and its step writes its row; a reading above the limit
\* and below the marker aborts it at once.
C24_SentinelNeverTrips ==
    \A k \in 1 .. Len(checks) :
        /\ checks[k] >= Sentinel =>
             /\ k < Len(checks) \/ sweep # "trip"
             /\ (k = Len(checks) /\ sweep = "none") => pc \in {"measure", "step", "linger"}
             /\ idx >= k => (Len(rows) >= k /\ rows[k].bias = bias_volts[k])
        /\ (checks[k] > args.current_limit /\ checks[k] < Sentinel) =>
             (k = Len(checks) /\ sweep = "trip")

\* a sweep of two points, read at the marker and above it, has completed
C24_Witness ==
    /\ Done /\ outcome = "returned" /\ sweep = "completed"
    /\ checks = <<Sentinel, Sentinel + 1>>
    /\ Len(rows) = 2

\* C25: the first bias value the sweep sets is within one unit of 0, the
\* voltage the initial ramp has brought the device to, so that the first
\* point is not reached by a jump.
C25_FirstBiasThroughRamp ==
    Len(SweepSets) >= 1 => Abs(SweepSets[1].arg - 0) <= Volt

\* the steps of the teardown, in the order they were done
TeardownSteps ==
    SelectSeq(events, LAMBDA e : e \in {"lcr_min", "td_ramp", "td_off", "td_close"})

\* the set_voltage commands sent after the try block was left
TeardownSets ==
    IF IsNone(marks.left) THEN <<>>
    ELSE SelectSeq([j \in 1 .. Len(smu.cmds) - Val(marks.left) |->
                        smu.cmds[Val(marks.left) + j]],
                   LAMBDA c : c.cmd = "set_voltage")

\* C28: when cv_scan has ended after its try block, the teardown was: LCR AC
\* voltage to its minimum, ramp to zero in as many steps as the bias sequence
\* has values, power-off if the SMU defines it, dut.close, in this order.
C28_CvTeardownOrder ==
    (Done /\ args.kind = "cv" /\ sweep # "none") =>
        /\ TeardownSteps = <<"lcr_min", "td_ramp">>
                            \o (IF Defines(smu, "off") THEN <<"td_off">> ELSE <<>>)
                            \o <<"td_close">>
        /\ Len(TeardownSets) \in {0, Len(bias_volts)}
        /\ lcr = "MIN" /\ ~dut_open

\* C30: the interlock is checked once per bias step, on the reading taken
\* right after set_voltage; a step whose reading is within the limit is never
\* aborted and, once completed, has its row, whatever current the row
\* records; the sweep is aborted only by an interlock reading.
C30_InterlockOncePerStep ==
    /\ idx <= Len(checks) /\ Len(checks) <= idx + 1
    /\ Len(SweepSets) = Len(checks)
    /\ \A k \in 1 .. Len(checks) : ~Over(checks[k]) => (k < Len(checks) \/ sweep # "trip")
    /\ \A k \in 1 .. idx : Len(rows) >= k /\ rows[k].bias = bias_volts[k]
    /\ sweep = "trip" => Over(checks[Len(checks)])
    /\ (pc = "step" /\ sweep = "none") => Len(rows) = idx

\* a sweep completed although the current recorded at its first step was
\* above the limit
C30_Witness ==
    /\ Done /\ outcome = "returned" /\ sweep = "completed" /\ n_linger = 0
    /\ Len(rows) = 2 /\ rows[1].current > args.current_limit
    /\ \A k \in 1 .. Len(checks) : checks[k] <= args.current_limit

\* ---- the path of ramp_voltage

\* the voltages a ramp_voltage call set on the device, in order
RampSets ==
    LET sets == SelectSeq(smu.cmds, LAMBDA c : c.cmd = "set_voltage")
    IN  [j \in 1 .. Len(sets) |-> sets[j].arg]

\* C26: a ramp_voltage call that walked its path, whatever its steps
\* argument, set at least one voltage, the first being the voltage read at
\* entry and the last being the target.
C26_PathHasBothEndpoints ==
    (RampCalled /\ RampOut.walked) =>
        /\ Len(RampSets) >= 1
        /\ RampSets[1] = RampOut.entry
        /\ RampSets[Len(RampSets)] = r_in.target_voltage

\* C27: in a ramp_voltage call with steps unset the voltages set go from the
\* entry reading to the target without changing direction, and two
\* consecutive ones differ by at most one volt.
C27_DefaultStepsBounded ==
    (RampCalled /\ IsNone(r_in.steps)) =>
        /\ NonDecreasing(RampSets) \/ NonIncreasing(RampSets)
        /\ \A j \in 1 .. Len(RampSets) - 1 : Abs(RampSets[j + 1] - RampSets[j]) <= Volt
        /\ RampOut.walked =>
             /\ Len(RampSets) >= 2
             /\ RampSets[1] = RampOut.entry
             /\ RampSets[Len(RampSets)] = r_in.target_voltage

\* a default ramp over more than two volts, read half a volt off at entry
C27_Witness ==
    /\ RampCalled /\ IsNone(r_in.steps) /\ RampOut.walked /\ RampOut.err = "none"
    /\ Abs(r_in.target_voltage - RampOut.entry) > 2 * Volt
    /\ RampOut.entry % Volt # 0
    /\ Len(RampSets) >= 4

\* ---- rejected write_row calls

\* the rows the writer's file holds, each parsed back to its values
StoredRows ==
    LET stored == DataRows(FileView)
    IN  [j \in 1 .. Len(stored) |->
            [k \in 1 .. Len(stored[j].fields) |-> Parse(stored[j].fields[k])]]

\* the rows of the accepted calls, in the order of the calls
AcceptedRows == [j \in 1 .. Len(w_out.accepted) |-> Supplied(w_out.accepted[j])]

\* calls with one value per column
ValidCalls == { c \in SessionCalls : Positional(c) /\ Len(c.row_data) = Len(Names) }

SessionStart ==
    LET r == _open(NoFiles, dw.obj)
    IN  r.fs[dw.obj.out_file] \o r.obj.buffer

SecondSession == w_out.session \in {"again", "second"} /\ dw.pc \in {"inside", "left"}

\* C31: the existence of the path is checked at construction only: a second
\* writer is refused exactly when the path exists then and overwrite is
\* false, and entering is never refused; entering truncates, so in a
\* second session on the path, of the same writer or of a second one, the
\* file holds one header and the rows of this session only, whatever the
\* first session left and whatever overwrite is.
C31_OpenTruncatesUnchecked ==
    /\ w_out.second.err = (IF w_out.second.existed /\ ~w_in.overwrite THEN "IOError"
                           ELSE "none")
    /\ dw.pc # "enter_failed"
    /\ SecondSession =>
         /\ FileView = SessionStart \o DataRows(FileView)
         /\ StoredRows = AcceptedRows

\* without overwrite, the second session of a second writer was left with
\* no row where the first session had left two
C31_Witness ==
    /\ w_out.session = "second" /\ dw.pc = "left" /\ ~w_in.overwrite
    /\ Len(DataRows(w_out.earlier)) = 2
    /\ w_out.accepted = <<>> /\ DataRows(fs[Target]) = <<>>

\* ---- the start of a scan

SetupOut == r_out[1]

SetupCalled == r_out # <<>>

\* the names of the commands sent, in order
Sent == [j \in 1 .. Len(smu.cmds) |-> smu.cmds[j].cmd]

\* C32: on a driver that defines set_current_limit, every set_voltage and on
\* command of the setup and of the initial ramp comes after the
\* set_current_limit command with the limit of the scan; a command the
\* driver does not define is not sent and is no error: the setup fails only
\* for an empty bias sequence or in the ramp of a device found on.
C32_LimitBeforeOutput ==
    SetupCalled =>
        /\ \A j \in 1 .. Len(smu.cmds) :
             (Sent[j] \in {"set_voltage", "on"} /\ Defines(smu, "set_current_limit")) =>
                 \E i \in 1 .. j - 1 :
                     smu.cmds[i] = Cmd("set_current_limit", r_in.current_limit)
        /\ \A c \in OptionalCaps \ smu.caps : c \notin Range(Sent)
        /\ (SetupOut.stage = "setup" /\ SetupOut.err # "none") =>
             \/ Len(r_in.bias_voltage) = 0 /\ SetupOut.err = "ValueError"
             \/ Defines(smu, "get_on") /\ SetupOut.walked /\ SetupOut.err = "RuntimeError"

\* a driver with set_current_limit and on, but without source_volt,
\* set_voltage_range and get_on, was set up and ramped without error
C32_Witness ==
    /\ SetupCalled /\ SetupOut.stage = "ramp0" /\ SetupOut.err = "none"
    /\ smu.caps = {"set_current_limit", "on"}
    /\ Sent = <<"set_current_limit", "set_voltage", "on">>
    /\ smu.on

\* ---- the voltages a scan commands

\* the voltages of the set_voltage commands sent so far
Commanded ==
    { smu.cmds[j].arg : j \in { k \in 1 .. Len(smu.cmds) : smu.cmds[k].cmd = "set_voltage" } }

\* 0 and the values of the bias sequence
BiasPoints == {0} \cup Range(bias_volts)

\* the voltages read at the start of the ramps
ReadPoints == Range(marks.reads)

Within(v, points) == (\E p \in points : p <= v) /\ (\E p \in points : v <= p)

\* C33: every voltage a scan has commanded lies between the smallest and the
\* largest of 0, the bias values and the voltages read at the start of the
\* ramps; so while no reading was outside the range of 0 and the bias values,
\* no commanded voltage is.
C33_CommandedWithinSpan ==
    /\ \A v \in Commanded : Within(v, BiasPoints \cup ReadPoints)
    /\ (\A p \in ReadPoints : Within(p, BiasPoints)) =>
            \A v \in Commanded : Within(v, BiasPoints)

\* a scan that returned with all its rows commanded a voltage above its
\* largest bias value, the voltage read at the start of a ramp
C33_Witness ==
    /\ Done /\ outcome = "returned" /\ Len(bias_volts) = 2 /\ Len(rows) = 2
    /\ \E v \in Commanded : v \in ReadPoints /\ ~Within(v, BiasPoints)
    /\ \E v \in Commanded : v \notin BiasPoints \cup ReadPoints

=============================================================================
